---- MODULE Spec2Model ----
(***************************************************************************)
(* Model of unc_classification_tab_data:                                   *)
(*   models/mlp.py              MLPModule.__init__, MLP.get_loss_fn,       *)
(*                              MLP.train                                  *)
(*   utils/visualizing_utils.py ResultContainer, UncertaintyAnalyzer,      *)
(*                              get_incremental_loss                       *)
(* Each component has its own specification (SpecTrain, SpecLoss,          *)
(* SpecModule, ...); the variables of the other components stay at their   *)
(* idle values.                                                            *)
(***************************************************************************)
EXTENDS Integers, Sequences, FiniteSets, TLC

VARIABLES
    \* ---- MLP.train (mlp.py 198-247)
    n_epochs,                 \* argument n_epochs
    early_stopping,           \* argument early_stopping
    early_stopping_patience,  \* argument early_stopping_patience
    epoch,                    \* number of loop bodies started so far
    prev_val_loss,            \* local prev_val_loss
    n_no_improvement,         \* local n_no_improvement
    val_losses,               \* the values validate() has returned, in order
    train_pc,                 \* "loop" | "break" | "exhausted"
    \* ---- MLP.get_loss_fn (mlp.py 147-175)
    class_weight,             \* self.class_weight
    mean_y,                   \* argument mean_y, a fraction <<k, n>>
    pos_weight,               \* pos_weight handed to BCEWithLogitsLoss
    loss_pc,                  \* "call" | "returned"
    \* ---- MLPModule.__init__ (mlp.py 28-49)
    hidden_sizes,             \* argument hidden_sizes
    input_size,               \* argument input_size
    output_size,              \* argument output_size
    do_batch_norm,            \* argument do_batch_norm
    layers,                   \* local layers
    loop_i,                   \* the for loop's i
    mlp,                      \* self.mlp, or None
    module_pc,                \* "first" | "loop" | "output" | "done" | "IndexError"
    \* ---- ResultContainer (visualizing_utils.py 11-50)
    uncertainties,            \* self.uncertainties: method name -> list of arrays
    predictions,              \* self.predictions: method name -> list of arrays
    calls,                    \* per method name, the arguments (y_pred, calibrate)
                              \* of the add_results calls that returned, in order
    last_call,                \* how the last add_results call ended:
                              \* "none" | "returned" | "TypeError"
    \* ---- UncertaintyAnalyzer (visualizing_utils.py 53-167)
    keys,                     \* self.uncertainty_dict.keys(), in dict order
    self_y,                   \* self.y: per seed, the array of labels
    self_y_pred,              \* self.y_pred: key -> per seed, array of predictions
    uncertainty_dict,         \* self.uncertainty_dict: key -> per seed, array
    min_size,                 \* self.min_size
    step_size,                \* self.step_size
    self_xs,                  \* self.xs: key -> metric name -> list
    loss_dict,                \* self.loss_dict: key -> metric name -> list
    loss_std_dict,            \* self.loss_std_dict: key -> metric name -> list
    key_i,                    \* position of the loop over the keys
    \* ---- get_incremental_loss (visualizing_utils.py 170-232)
    score,                    \* local score: metric name -> list
    score_std,                \* local score_std: metric name -> list
    xs,                       \* local xs: metric name -> list
    metric_i,                 \* position of the loop over metrics
    seed_n,                   \* the loop variable n (1-based)
    list_of_scores,           \* local list_of_scores
    list_of_xs,               \* per seed of the current metric, its temp_xs
    temp_score,               \* local temp_score (of the last seed)
    temp_xs,                  \* local temp_xs (of the last seed)
    temp_frames,              \* the frames temp handed to the metric (last seed)
    sorted_df,                \* local sorted_df (of the last seed)
    incr_pc                   \* "keys" | "metrics" | "seeds" | "return" | "done"
                              \* | "TypeError" | "ValueError"

trainVars  == <<n_epochs, early_stopping, early_stopping_patience, epoch,
                prev_val_loss, n_no_improvement, val_losses, train_pc>>
lossVars   == <<class_weight, mean_y, pos_weight, loss_pc>>
moduleVars == <<hidden_sizes, input_size, output_size, do_batch_norm, layers,
                loop_i, mlp, module_pc>>
resultVars == <<uncertainties, predictions, calls, last_call>>
analyzerVars == <<keys, self_y, self_y_pred, uncertainty_dict, min_size, step_size,
                  self_xs, loss_dict, loss_std_dict, key_i>>
incrVars  == <<score, score_std, xs, metric_i, seed_n, list_of_scores, list_of_xs,
               temp_score, temp_xs, temp_frames, sorted_df, incr_pc>>
vars == <<trainVars, lossVars, moduleVars, resultVars, analyzerVars, incrVars>>

otherThanTrain    == <<lossVars, moduleVars, resultVars, analyzerVars, incrVars>>
otherThanLoss     == <<trainVars, moduleVars, resultVars, analyzerVars, incrVars>>
otherThanModule   == <<trainVars, lossVars, resultVars, analyzerVars, incrVars>>
otherThanResult   == <<trainVars, lossVars, moduleVars, analyzerVars, incrVars>>
otherThanAnalyzer == <<trainVars, lossVars, moduleVars, resultVars>>

None == <<>>

(***************************************************************************)
(* Bounds of the model.                                                    *)
(***************************************************************************)
MaxEpochs   == 5      \* n_epochs ranges over 0..MaxEpochs
MaxPatience == 2      \* early_stopping_patience ranges over 0..MaxPatience
MaxLoss     == 2      \* finite validation losses range over 0..MaxLoss
MaxBatch    == 7      \* a batch (or validation set) has 1..MaxBatch labels
MaxHidden   == 2      \* hidden_sizes has at most MaxHidden entries
MaxWidth    == 2      \* layer widths range over 1..MaxWidth
MaxCalls    == 2      \* at most MaxCalls calls of ResultContainer.add_results
MaxRows     == 1      \* a y_pred array has 1..MaxRows rows
MaxPoints   == 4      \* a seed's test set has 0..MaxPoints points
MaxTogether == 4      \* the test sets of two seeds have at most MaxTogether
                      \* points together

(***************************************************************************)
(* Floating point values of the validation loss: finite losses, NaN (which *)
(* compares False with everything) and float('inf').                       *)
(***************************************************************************)
Fin(x) == [kind |-> "finite", v |-> x]
NaN == [kind |-> "nan", v |-> 0]
Inf == [kind |-> "inf", v |-> 0]
LossValues == {Fin(x) : x \in 0..MaxLoss} \cup {NaN}

\* a > b on floats
FloatGt(a, b) ==
    IF a = NaN \/ b = NaN THEN FALSE
    ELSE IF a = Inf THEN b # Inf
    ELSE IF b = Inf THEN FALSE
    ELSE a.v > b.v

(***************************************************************************)
(* MLP.train                                                               *)
(***************************************************************************)
\* mutant: a tie with the reference loss counts as no improvement
NoImprovementOnTie(val_loss, prev) == FloatGt(val_loss, prev) \/ val_loss = prev

\* mlp.py 241: if val_loss > prev_val_loss
NoImprovement(val_loss, prev) == FloatGt(val_loss, prev)

\* mlp.py 246: if n_no_improvement >= early_stopping_patience: break
\* (evaluated whatever early_stopping is)
ShouldBreak(n, patience) == n >= patience

TrainInit ==
    /\ n_epochs \in 0..MaxEpochs
    /\ early_stopping \in BOOLEAN
    /\ early_stopping_patience \in 0..MaxPatience
    /\ epoch = 0
    /\ prev_val_loss = Inf
    /\ n_no_improvement = 0
    /\ val_losses = <<>>
    /\ train_pc = "loop"

TrainIdle ==
    /\ n_epochs = 0
    /\ early_stopping = FALSE
    /\ early_stopping_patience = 0
    /\ epoch = 0
    /\ prev_val_loss = Inf
    /\ n_no_improvement = 0
    /\ val_losses = <<>>
    /\ train_pc = "exhausted"

\* One pass of the loop body with early stopping on (mlp.py 229-247):
\* the batches are trained, validate() returns val_loss, the counter and the
\* reference loss are updated and the patience test decides on the break.
TrainEpochValidated ==
    /\ train_pc = "loop"
    /\ epoch < n_epochs
    /\ early_stopping
    /\ \E val_loss \in LossValues :
         LET worse == NoImprovement(val_loss, prev_val_loss)
             n     == IF worse THEN n_no_improvement + 1 ELSE 0
         IN /\ val_losses' = Append(val_losses, val_loss)
            /\ n_no_improvement' = n
            /\ prev_val_loss' = IF worse THEN prev_val_loss ELSE val_loss
            /\ train_pc' = IF ShouldBreak(n, early_stopping_patience)
                           THEN "break" ELSE "loop"
    /\ epoch' = epoch + 1
    /\ UNCHANGED <<n_epochs, early_stopping, early_stopping_patience>>
    /\ UNCHANGED otherThanTrain

\* One pass of the loop body with early stopping off: no validation, the
\* counter stays as it is, the patience test is still evaluated.
TrainEpochPlain ==
    /\ train_pc = "loop"
    /\ epoch < n_epochs
    /\ ~early_stopping
    /\ epoch' = epoch + 1
    /\ train_pc' = IF ShouldBreak(n_no_improvement, early_stopping_patience)
                   THEN "break" ELSE "loop"
    /\ UNCHANGED <<n_epochs, early_stopping, early_stopping_patience,
                   prev_val_loss, n_no_improvement, val_losses>>
    /\ UNCHANGED otherThanTrain

\* mlp.py 227: range(n_epochs) is exhausted
TrainLoopEnd ==
    /\ train_pc = "loop"
    /\ epoch = n_epochs
    /\ train_pc' = "exhausted"
    /\ UNCHANGED <<n_epochs, early_stopping, early_stopping_patience, epoch,
                   prev_val_loss, n_no_improvement, val_losses>>
    /\ UNCHANGED otherThanTrain

TrainNext ==
    \/ TrainEpochValidated
    \/ TrainEpochPlain
    \/ TrainLoopEnd

(***************************************************************************)
(* MLP.get_loss_fn.  mean_y is the fraction k/n of positives, kept as      *)
(* <<k, n>>; weights are fractions in lowest terms <<num, den>>.           *)
(***************************************************************************)
RECURSIVE GCD(_, _)
GCD(a, b) == IF b = 0 THEN a ELSE GCD(b, a % b)

\* the fraction num/den (den > 0, num >= 0) in lowest terms
Frac(num, den) == LET g == GCD(num, den) IN <<num \div g, den \div g>>

\* mutant: the ratio is taken the wrong way round, mean / (1 - mean)
PosWeightInverted(cw, mean) ==
    IF cw
    THEN IF mean[1] = 0 THEN Frac(0, 1)
         ELSE IF mean[1] = mean[2] THEN Frac(1, 1)
         ELSE Frac(mean[1], mean[2] - mean[1])
    ELSE Frac(1, 1)

\* mlp.py 162-172
PosWeight(cw, mean) ==
    IF cw
    THEN IF mean[1] = 0 THEN Frac(0, 1)                    \* mean_y == 0
         ELSE IF mean[1] = mean[2] THEN Frac(1, 1)         \* mean_y == 1
         ELSE Frac(mean[2] - mean[1], mean[1])             \* (1 - mean_y) / mean_y
    ELSE Frac(1, 1)

Means == {<<k, n>> : k \in 0..MaxBatch, n \in 1..MaxBatch} \cap
         {m \in (0..MaxBatch) \X (1..MaxBatch) : m[1] <= m[2]}

LossInit ==
    /\ class_weight \in BOOLEAN
    /\ mean_y \in Means
    /\ pos_weight = None
    /\ loss_pc = "call"

LossIdle ==
    /\ class_weight = TRUE
    /\ mean_y = <<0, 1>>
    /\ pos_weight = None
    /\ loss_pc = "returned"

get_loss_fn ==
    /\ loss_pc = "call"
    /\ pos_weight' = PosWeight(class_weight, mean_y)
    /\ loss_pc' = "returned"
    /\ UNCHANGED <<class_weight, mean_y>>
    /\ UNCHANGED otherThanLoss

LossNext == get_loss_fn

(***************************************************************************)
(* MLPModule.__init__                                                      *)
(***************************************************************************)
Linear(i, o)   == [kind |-> "Linear", in_features |-> i, out_features |-> o]
BatchNorm1d(n) == [kind |-> "BatchNorm1d", in_features |-> n, out_features |-> n]
ReLU           == [kind |-> "ReLU", in_features |-> 0, out_features |-> 0]
Dropout        == [kind |-> "Dropout", in_features |-> 0, out_features |-> 0]

\* Linear, optional BatchNorm1d, ReLU, Dropout (mlp.py 34-38 and 41-45)
HiddenBlock(i, o, bn) ==
    <<Linear(i, o)>> \o (IF bn THEN <<BatchNorm1d(o)>> ELSE <<>>) \o <<ReLU, Dropout>>

SeqsUpTo(S, n) == UNION {[1..k -> S] : k \in 0..n}

ModuleInit ==
    /\ hidden_sizes \in SeqsUpTo(1..MaxWidth, MaxHidden)
    /\ input_size \in 1..MaxWidth
    /\ output_size \in 1..MaxWidth
    /\ do_batch_norm \in BOOLEAN
    /\ layers = <<>>
    /\ loop_i = 1
    /\ mlp = None
    /\ module_pc = "first"

ModuleIdle ==
    /\ hidden_sizes = <<>>
    /\ input_size = 1
    /\ output_size = 1
    /\ do_batch_norm = FALSE
    /\ layers = <<>>
    /\ loop_i = 1
    /\ mlp = None
    /\ module_pc = "IndexError"

\* mlp.py 33-38
FirstBlock ==
    /\ module_pc = "first"
    /\ layers' = IF Len(hidden_sizes) > 0
                 THEN layers \o HiddenBlock(input_size, hidden_sizes[1], do_batch_norm)
                 ELSE layers
    /\ module_pc' = "loop"
    /\ UNCHANGED <<hidden_sizes, input_size, output_size, do_batch_norm, loop_i, mlp>>
    /\ UNCHANGED otherThanModule

\* mlp.py 40-45: one iteration of for i in range(1, len(hidden_sizes));
\* loop_i is i + 1 (sequences are 1-based)
NextBlock ==
    /\ module_pc = "loop"
    /\ loop_i + 1 <= Len(hidden_sizes)
    /\ layers' = layers \o HiddenBlock(hidden_sizes[loop_i], hidden_sizes[loop_i + 1],
                                       do_batch_norm)
    /\ loop_i' = loop_i + 1
    /\ UNCHANGED <<hidden_sizes, input_size, output_size, do_batch_norm, mlp, module_pc>>
    /\ UNCHANGED otherThanModule

\* the for loop is exhausted
BlocksDone ==
    /\ module_pc = "loop"
    /\ loop_i + 1 > Len(hidden_sizes)
    /\ module_pc' = "output"
    /\ UNCHANGED <<hidden_sizes, input_size, output_size, do_batch_norm, layers,
                   loop_i, mlp>>
    /\ UNCHANGED otherThanModule

\* mlp.py 47-49: hidden_sizes[-1] raises IndexError on an empty list, and
\* the constructor is left without self.mlp having been set
OutputLayer ==
    /\ module_pc = "output"
    /\ IF hidden_sizes = <<>>
       THEN /\ module_pc' = "IndexError"
            /\ UNCHANGED <<layers, mlp>>
       ELSE /\ layers' = Append(layers,
                                Linear(hidden_sizes[Len(hidden_sizes)], output_size))
            /\ mlp' = layers'
            /\ module_pc' = "done"
    /\ UNCHANGED <<hidden_sizes, input_size, output_size, do_batch_norm, loop_i>>
    /\ UNCHANGED otherThanModule

ModuleNext ==
    \/ FirstBlock
    \/ NextBlock
    \/ BlocksDone
    \/ OutputLayer

(***************************************************************************)
(* ResultContainer.  Probabilities are kept in halves: 0, 1, 2 stand for   *)
(* 0, 0.5, 1.  A y_pred array is a sequence of rows <<p0, p1>> with        *)
(* p0 + p1 = 1 (the two columns of predict_proba); the rows drawn here are *)
(* (0.5, 0.5) and (0, 1).                                                  *)
(***************************************************************************)
Methods == {"mlp", "knn"}
Probs == {0, 1, 2}
Rows == {<<1, 1>>, <<0, 2>>}
YPreds == UNION {[1..k -> Rows] : k \in 1..MaxRows}

\* y_pred[:, 1]
PositiveColumn(y_pred) == [i \in DOMAIN y_pred |-> y_pred[i][2]]

\* Shannon entropy, in bits, of one row of probabilities in halves:
\* 0 for (0, 1) and (1, 0), 1 for (0.5, 0.5)
RowEntropy(row) == IF row[1] = 0 \/ row[2] = 0 THEN 0 ELSE 1

\* gen_utils.entropy(y_pred, axis=1)
entropy(y_pred) == [i \in DOMAIN y_pred |-> RowEntropy(y_pred[i])]

\* The maps a fitted Platt scaler (a logistic function of the probability,
\* with a slope of either sign) can induce on the probabilities in halves:
\* the monotone maps.
PlattMaps ==
    {f \in [Probs -> Probs] :
        \/ \A p, q \in Probs : p <= q => f[p] <= f[q]
        \/ \A p, q \in Probs : p <= q => f[p] >= f[q]}

\* gen_utils.platt_scale(y_pred[:, 1], y_pred_val[:, 1], y_val): the values
\* it can return for the column, one per scaler the validation data can fit
platt_scale(column) == {[i \in DOMAIN column |-> f[column[i]]] : f \in PlattMaps}

\* mutant: the uncertainty of a calibrated run is the entropy of the
\* calibrated probabilities
StoredUncertaintyOfStoredPrediction(y_pred, prediction) ==
    entropy([i \in DOMAIN prediction |-> <<2 - prediction[i], prediction[i]>>])

\* visualizing_utils.py 43 and 49: always the entropy of y_pred as given
StoredUncertainty(y_pred, prediction) == entropy(y_pred)

ResultInit ==
    /\ uncertainties = [name \in Methods |-> <<>>]
    /\ predictions = [name \in Methods |-> <<>>]
    /\ calls = [name \in Methods |-> <<>>]
    /\ last_call = "none"

ResultIdle == ResultInit

CallsMade == Len(calls["mlp"]) + Len(calls["knn"])

\* what a call of add_results that returns does (visualizing_utils.py 43-44
\* and 49-50)
AppendResults(name, y_pred, calibrate, prediction) ==
    /\ uncertainties' = [uncertainties EXCEPT
                            ![name] = Append(@, StoredUncertainty(y_pred, prediction))]
    /\ predictions' = [predictions EXCEPT ![name] = Append(@, prediction)]
    /\ calls' = [calls EXCEPT
                    ![name] = Append(@, [y_pred |-> y_pred, calibrate |-> calibrate])]
    /\ last_call' = "returned"

\* add_results(y_pred, name, calibrate=False): visualizing_utils.py 41-44
add_results_raw ==
    /\ CallsMade < MaxCalls
    /\ \E name \in Methods, y_pred \in YPreds :
         AppendResults(name, y_pred, FALSE, PositiveColumn(y_pred))
    /\ UNCHANGED otherThanResult

\* mutant: the calibrated branch stores the prediction only
add_results_calibrated_prediction_only ==
    /\ CallsMade < MaxCalls
    /\ \E name \in Methods, y_pred \in YPreds :
       \E y_pred_calibrated \in platt_scale(PositiveColumn(y_pred)) :
         /\ predictions' = [predictions EXCEPT ![name] = Append(@, y_pred_calibrated)]
         /\ calls' = [calls EXCEPT
                         ![name] = Append(@, [y_pred |-> y_pred, calibrate |-> TRUE])]
         /\ last_call' = "returned"
         /\ UNCHANGED uncertainties
    /\ UNCHANGED otherThanResult

\* add_results(y_pred, name, y_pred_val, y_val, calibrate=True):
\* visualizing_utils.py 45-50
add_results_calibrated ==
    /\ CallsMade < MaxCalls
    /\ \E name \in Methods, y_pred \in YPreds :
       \E y_pred_calibrated \in platt_scale(PositiveColumn(y_pred)) :
         AppendResults(name, y_pred, TRUE, y_pred_calibrated)
    /\ UNCHANGED otherThanResult

\* add_results(y_pred, name, calibrate=True) with y_pred_val left at None:
\* y_pred_val[:, 1] raises TypeError at line 47, before anything is appended
add_results_without_validation_data ==
    /\ CallsMade < MaxCalls
    /\ last_call' = "TypeError"
    /\ UNCHANGED <<uncertainties, predictions, calls>>
    /\ UNCHANGED otherThanResult

ResultNext ==
    \/ add_results_raw
    \/ add_results_calibrated
    \/ add_results_without_validation_data

(***************************************************************************)
(* UncertaintyAnalyzer and get_incremental_loss.                           *)
(* A point of a seed's test set has a label y, a predicted probability     *)
(* y_pred (0 or 1 here) and an uncertainty.  Metric values are integers    *)
(* (counts); a mean over seeds is a fraction in lowest terms, a standard   *)
(* deviation is kept exactly as the fraction it is the square root of.     *)
(***************************************************************************)
\* the (y, y_pred, uncertainty) a point may have: certain and right,
\* uncertain and wrong, uncertain and right
PointKinds ==
    { [y |-> 1, y_pred |-> 1, uncertainty |-> 0],
      [y |-> 0, y_pred |-> 1, uncertainty |-> 1],
      [y |-> 0, y_pred |-> 0, uncertainty |-> 1] }

MinSizes   == {0, 1, 2}
StepSizes  == {1, 2}

\* the metrics handed in by the caller, by __name__: the number of points
\* predicted right and the number of positive labels
Metrics == <<"n_correct", "n_positive">>
MetricNames == {"n_correct", "n_positive"}

\* metric(temp['y'], temp['y_pred']) for a frame (a sequence of rows)
Metric(name, frame) ==
    IF name = "n_correct"
    THEN Cardinality({j \in DOMAIN frame : frame[j].y = frame[j].y_pred})
    ELSE Cardinality({j \in DOMAIN frame : frame[j].y = 1})

EmptyDict == [name \in MetricNames |-> <<>>]

Min(a, b) == IF a <= b THEN a ELSE b

\* list(range(start, stop, step)) for step > 0
PyRange(start, stop, step) ==
    LET count == IF stop > start THEN (stop - start + step - 1) \div step ELSE 0
    IN [k \in 1..count |-> start + (k - 1) * step]

\* visualizing_utils.py 211-216: the frame of seed n, one row per point
DataFrame(y_pred_n, uncertainty_n, y_n) ==
    [j \in DOMAIN uncertainty_n |->
        [y_pred |-> y_pred_n[j],
         minimum_y_pred |-> Min(1 - y_pred_n[j], y_pred_n[j]),
         uncertainty |-> uncertainty_n[j],
         y |-> y_n[j]]]

\* the frames made of the rows df[i], i in left, in an order in which the
\* keys by[i] never go down (never go up if descending).  Rows of equal key
\* come in any order; of equal rows the one of lowest index is taken first,
\* which gives the same frames.
RECURSIVE Ordered(_, _, _, _)
Ordered(df, by, left, descending) ==
    IF left = {} THEN {<<>>}
    ELSE LET firsts == {i \in left : \A j \in left :
                           IF descending THEN by[i] >= by[j] ELSE by[i] <= by[j]}
             rows == {i \in firsts : \A j \in firsts : df[j] = df[i] => i <= j}
         IN UNION { {<<df[i]>> \o rest : rest \in Ordered(df, by, left \ {i}, descending)} :
                    i \in rows }

\* mutant: the frame is sorted from uncertain to certain
sort_values_descending(df) ==
    Ordered(df, [i \in DOMAIN df |-> df[i].uncertainty], DOMAIN df, TRUE)

\* visualizing_utils.py 221: df.sort_values(by='uncertainty').  The default
\* sort is quicksort, which is not stable: rows of equal uncertainty may come
\* in any order.
sort_values(df) ==
    Ordered(df, [i \in DOMAIN df |-> df[i].uncertainty], DOMAIN df, FALSE)

\* mutant: the loop starts one step late
LoopSizesLate(min, n, step) == PyRange(min + step, n, step)

\* visualizing_utils.py 222: range(min_size, len(sorted_df), step_size)
LoopSizes(min, n, step) == PyRange(min, n, step)

\* mutant: the full set is among the returned positions
ReturnedSizesInclusive(min, n, step) == PyRange(min, n + 1, step)

\* visualizing_utils.py 231: list(range(min_size, len(sorted_df), step_size))
ReturnedSizes(min, n, step) == PyRange(min, n, step)

\* visualizing_utils.py 223: sorted_df[:i], for 0 <= i <= len(sorted_df)
FirstRows(frame, i) == SubSeq(frame, 1, i)

RECURSIVE SumSeq(_)
SumSeq(q) == IF q = <<>> THEN 0 ELSE q[1] + SumSeq(Tail(q))

\* np.array(list_of_scores).mean(axis=0)[k], for integer values
Mean(values) == Frac(SumSeq(values), Len(values))

\* mutant: the sample standard deviation (divisor n - 1)
StdSample(values) ==
    LET n == Len(values)
        t == SumSeq(values)
        sq == SumSeq([k \in 1..n |-> values[k] * values[k]])
    IN [sqrt_of |-> Frac(n * sq - t * t, IF n > 1 THEN n * (n - 1) ELSE 1)]

\* np.array(list_of_scores).std(axis=0)[k], for integer values: the square
\* root of mean(x^2) - mean(x)^2
Std(values) ==
    LET n == Len(values)
        t == SumSeq(values)
        sq == SumSeq([k \in 1..n |-> values[k] * values[k]])
    IN [sqrt_of |-> Frac(n * sq - t * t, n * n)]

\* the test sets a seed may have: the kinds of its points, in order
SeedData(most) == UNION {[1..n -> PointKinds] : n \in 0..most}

\* the test sets of S seeds (S <= 2): each of at most `each` points, two of
\* at most `together` points together
SeedsData(S, each, together) ==
    IF S = 0 THEN {<<>>}
    ELSE IF S = 1 THEN {<<d>> : d \in SeedData(each)}
    ELSE UNION {{<<d1, d2>> : d2 \in SeedData(Min(each, together - Len(d1)))} :
                   d1 \in SeedData(Min(each, together))}

Labels(data) == [j \in DOMAIN data |-> data[j].y]

\* The analyzer as constructed (visualizing_utils.py 87-95) for the keys ks,
\* with seed counts in seeds and test sets from SeedsData.  The labels are
\* shared by the keys (self.y), so the arrays of a seed have the same length
\* for every key.
AnalyzerInitWith(ks, seeds, each, together) ==
    /\ keys = ks
    /\ min_size \in MinSizes
    /\ step_size \in StepSizes
    /\ \E S \in seeds : \E first \in SeedsData(S, each, together) :
         /\ self_y = [n \in 1..S |-> Labels(first[n])]
         /\ \E others \in IF Len(ks) = 1 THEN {<<>>}
                            ELSE [2..Len(ks) ->
                                    {d \in SeedsData(S, each, together) :
                                        \A n \in 1..S : Labels(d[n]) = Labels(first[n])}] :
            LET data == [k \in 1..Len(ks) |-> IF k = 1 THEN first ELSE others[k]]
            IN
              /\ self_y_pred = [k \in 1..Len(ks) |->
                    [n \in 1..S |-> [j \in DOMAIN data[k][n] |-> data[k][n][j].y_pred]]]
              /\ uncertainty_dict = [k \in 1..Len(ks) |->
                    [n \in 1..S |-> [j \in DOMAIN data[k][n] |-> data[k][n][j].uncertainty]]]
    /\ self_xs = [k \in 1..Len(ks) |-> EmptyDict]
    /\ loss_dict = [k \in 1..Len(ks) |-> EmptyDict]
    /\ loss_std_dict = [k \in 1..Len(ks) |-> EmptyDict]
    /\ key_i = 1
    /\ score = EmptyDict
    /\ score_std = EmptyDict
    /\ xs = EmptyDict
    /\ metric_i = 1
    /\ seed_n = 1
    /\ list_of_scores = <<>>
    /\ list_of_xs = <<>>
    /\ temp_score = <<>>
    /\ temp_xs = <<>>
    /\ temp_frames = <<>>
    /\ sorted_df = <<>>
    /\ incr_pc = "keys"

AnalyzerIdle ==
    /\ keys = <<>>
    /\ min_size = 0
    /\ step_size = 1
    /\ self_y = <<>>
    /\ self_y_pred = <<>>
    /\ uncertainty_dict = <<>>
    /\ self_xs = <<>>
    /\ loss_dict = <<>>
    /\ loss_std_dict = <<>>
    /\ key_i = 1
    /\ score = EmptyDict
    /\ score_std = EmptyDict
    /\ xs = EmptyDict
    /\ metric_i = 1
    /\ seed_n = 1
    /\ list_of_scores = <<>>
    /\ list_of_xs = <<>>
    /\ temp_score = <<>>
    /\ temp_xs = <<>>
    /\ temp_frames = <<>>
    /\ sorted_df = <<>>
    /\ incr_pc = "done"

number_of_seeds == Len(uncertainty_dict[key_i])

\* visualizing_utils.py 160-164 and 205-206: the next key's call of
\* get_incremental_loss starts
CallGetIncrementalLoss ==
    /\ incr_pc = "keys"
    /\ key_i <= Len(keys)
    /\ incr_pc' = "metrics"
    /\ UNCHANGED <<score, score_std, xs, metric_i>>
    /\ UNCHANGED <<seed_n, list_of_scores, list_of_xs, temp_score, temp_xs, temp_frames,
                   sorted_df>>
    /\ UNCHANGED analyzerVars
    /\ UNCHANGED otherThanAnalyzer

\* visualizing_utils.py 207-209: the loop over metrics takes its next metric
MetricStart ==
    /\ incr_pc = "metrics"
    /\ metric_i <= Len(Metrics)
    /\ list_of_scores' = <<>>
    /\ list_of_xs' = <<>>
    /\ seed_n' = 1
    /\ incr_pc' = "seeds"
    /\ UNCHANGED <<score, score_std, xs, metric_i, temp_score, temp_xs, temp_frames,
                   sorted_df>>
    /\ UNCHANGED analyzerVars
    /\ UNCHANGED otherThanAnalyzer

\* visualizing_utils.py 210-226: one seed of the current metric
SeedIteration ==
    /\ incr_pc = "seeds"
    /\ seed_n <= number_of_seeds
    /\ LET df == DataFrame(self_y_pred[key_i][seed_n], uncertainty_dict[key_i][seed_n],
                           self_y[seed_n])
       IN \E sorted \in sort_values(df) :
            LET sizes == LoopSizes(min_size, Len(sorted), step_size)
                temp == [k \in DOMAIN sizes |-> FirstRows(sorted, sizes[k])]
                scores == [k \in DOMAIN sizes |-> Metric(Metrics[metric_i], temp[k])]
            IN /\ sorted_df' = sorted
               /\ temp_frames' = temp
               /\ temp_score' = scores
               /\ temp_xs' = sizes
               /\ list_of_scores' = Append(list_of_scores, scores)
               /\ list_of_xs' = Append(list_of_xs, sizes)
    /\ seed_n' = seed_n + 1
    /\ UNCHANGED <<score, score_std, xs, metric_i, incr_pc>>
    /\ UNCHANGED analyzerVars
    /\ UNCHANGED otherThanAnalyzer

\* visualizing_utils.py 228-231: mean and standard deviation over the seeds.
\* Without a seed, mean(axis=0) is a scalar nan and list() of it raises
\* TypeError; seeds with different numbers of steps make a ragged array,
\* and the aggregation raises ValueError.
Aggregate ==
    /\ incr_pc = "seeds"
    /\ seed_n > number_of_seeds
    /\ IF number_of_seeds = 0
       THEN /\ incr_pc' = "TypeError"
            /\ UNCHANGED <<score, score_std, xs, metric_i>>
       ELSE IF \E n \in 1..number_of_seeds :
                  Len(list_of_scores[n]) # Len(list_of_scores[1])
       THEN /\ incr_pc' = "ValueError"
            /\ UNCHANGED <<score, score_std, xs, metric_i>>
       ELSE LET name == Metrics[metric_i]
                column(k) == [n \in 1..number_of_seeds |-> list_of_scores[n][k]]
            IN /\ score' = [score EXCEPT ![name] =
                              [k \in DOMAIN list_of_scores[1] |-> Mean(column(k))]]
               /\ score_std' = [score_std EXCEPT ![name] =
                              [k \in DOMAIN list_of_scores[1] |-> Std(column(k))]]
               /\ xs' = [xs EXCEPT ![name] =
                              ReturnedSizes(min_size, Len(sorted_df), step_size)]
               /\ metric_i' = metric_i + 1
               /\ incr_pc' = "metrics"
    /\ UNCHANGED <<seed_n, list_of_scores, list_of_xs, temp_score, temp_xs, temp_frames,
                   sorted_df>>
    /\ UNCHANGED analyzerVars
    /\ UNCHANGED otherThanAnalyzer

\* visualizing_utils.py 232 and 165-167: get_incremental_loss returns and
\* _calculate_incremental_metrics stores the three dictionaries under the
\* key; the locals of the call are gone
StoreResults ==
    /\ incr_pc = "metrics"
    /\ metric_i > Len(Metrics)
    /\ self_xs' = [self_xs EXCEPT ![key_i] = xs]
    /\ loss_dict' = [loss_dict EXCEPT ![key_i] = score]
    /\ loss_std_dict' = [loss_std_dict EXCEPT ![key_i] = score_std]
    /\ key_i' = key_i + 1
    /\ incr_pc' = "keys"
    /\ score' = EmptyDict
    /\ score_std' = EmptyDict
    /\ xs' = EmptyDict
    /\ metric_i' = 1
    /\ seed_n' = 1
    /\ list_of_scores' = <<>>
    /\ list_of_xs' = <<>>
    /\ temp_score' = <<>>
    /\ temp_xs' = <<>>
    /\ temp_frames' = <<>>
    /\ sorted_df' = <<>>
    /\ UNCHANGED <<keys, self_y, self_y_pred, uncertainty_dict, min_size, step_size>>
    /\ UNCHANGED otherThanAnalyzer

\* visualizing_utils.py 160: the loop over the keys is exhausted
AnalyzerDone ==
    /\ incr_pc = "keys"
    /\ key_i > Len(keys)
    /\ incr_pc' = "done"
    /\ UNCHANGED <<score, score_std, xs, metric_i, seed_n, list_of_scores, list_of_xs,
                   temp_score, temp_xs, temp_frames, sorted_df>>
    /\ UNCHANGED analyzerVars
    /\ UNCHANGED otherThanAnalyzer

AnalyzerNext ==
    \/ CallGetIncrementalLoss
    \/ MetricStart
    \/ SeedIteration
    \/ Aggregate
    \/ StoreResults
    \/ AnalyzerDone

\* one method with at most one seed
IncrInit == AnalyzerInitWith(<<"mlp">>, {0, 1}, MaxPoints, MaxPoints)

\* one method with two seeds
SeedsInit == AnalyzerInitWith(<<"mlp">>, {2}, MaxTogether, MaxTogether)

\* two methods over the same labels, with up to three points a seed
TwoMethodsInit == AnalyzerInitWith(<<"mlp", "knn">>, {1, 2}, 3, 4)

(***************************************************************************)
(* Specifications                                                          *)
(***************************************************************************)
InitTrain  == TrainInit /\ LossIdle /\ ModuleIdle /\ ResultIdle /\ AnalyzerIdle
InitLoss   == LossInit /\ TrainIdle /\ ModuleIdle /\ ResultIdle /\ AnalyzerIdle
InitModule == ModuleInit /\ TrainIdle /\ LossIdle /\ ResultIdle /\ AnalyzerIdle
InitResult == ResultInit /\ TrainIdle /\ LossIdle /\ ModuleIdle /\ AnalyzerIdle
InitIncr   == IncrInit /\ TrainIdle /\ LossIdle /\ ModuleIdle /\ ResultIdle
InitSeeds  == SeedsInit /\ TrainIdle /\ LossIdle /\ ModuleIdle /\ ResultIdle
InitAnalyzer == TwoMethodsInit /\ TrainIdle /\ LossIdle /\ ModuleIdle /\ ResultIdle

SpecTrain  == InitTrain /\ [][TrainNext]_vars
SpecLoss   == InitLoss /\ [][LossNext]_vars
SpecModule == InitModule /\ [][ModuleNext]_vars
SpecResult == InitResult /\ [][ResultNext]_vars
SpecIncr   == InitIncr /\ [][AnalyzerNext]_vars
SpecSeeds  == InitSeeds /\ [][AnalyzerNext]_vars
SpecAnalyzer == InitAnalyzer /\ [][AnalyzerNext]_vars

(***************************************************************************)
(* Claims about MLP.train (SpecTrain)                                      *)
(***************************************************************************)
TrainHalted == train_pc \in {"break", "exhausted"}

ExampleLosses == <<Fin(2), Fin(1), Fin(1), Fin(1)>>

C10_AllEpochsWithoutEarlyStopping ==
    (~early_stopping /\ TrainHalted) => epoch = n_epochs

\* the number of epochs at the end of val_losses whose loss is above ref
RECURSIVE EpochsAbove(_, _)
EpochsAbove(losses, ref) ==
    IF losses = <<>> \/ ~FloatGt(losses[Len(losses)], ref) THEN 0
    ELSE 1 + EpochsAbove(SubSeq(losses, 1, Len(losses) - 1), ref)

\* C11 as stated: with early stopping on, after every epoch prev_val_loss is
\* the minimum of the validation losses seen so far (one of them, and none of
\* them is below it), the counter is the number of epochs since
\* prev_val_loss was last set (the later epochs all had a loss above it), and
\* the counter is at most max(patience, 0).
C11_ReferenceIsMinimum ==
    (early_stopping /\ epoch >= 1) =>
        /\ \E j \in DOMAIN val_losses : val_losses[j] = prev_val_loss
        /\ \A j \in DOMAIN val_losses : ~FloatGt(prev_val_loss, val_losses[j])
        /\ n_no_improvement = EpochsAbove(val_losses, prev_val_loss)
        /\ n_no_improvement < epoch
        /\ n_no_improvement <=
              (IF early_stopping_patience > 0 THEN early_stopping_patience ELSE 0)

(***************************************************************************)
(* Claims about MLP.get_loss_fn (SpecLoss)                                 *)
(***************************************************************************)
\* C2: with class weighting, mean 0 gives weight 0, mean 1 gives weight 1,
\* any other mean gives (1 - mean) / mean (mean 1/4 gives 3); without class
\* weighting the weight is 1 for every mean.
C2_PosWeight ==
    loss_pc = "returned" =>
      LET k == mean_y[1]
          n == mean_y[2]
      IN /\ (class_weight /\ k = 0) => pos_weight = <<0, 1>>
         /\ (class_weight /\ k = n) => pos_weight = <<1, 1>>
         /\ (class_weight /\ 0 < k /\ k < n) =>
               /\ pos_weight[2] > 0
               /\ pos_weight[1] * k = (n - k) * pos_weight[2]
         /\ (class_weight /\ 4 * k = n) => pos_weight = <<3, 1>>
         /\ ~class_weight => pos_weight = <<1, 1>>

\* a batch with a quarter of positives has been weighted
C2_Witness ==
    /\ loss_pc = "returned"
    /\ class_weight
    /\ mean_y = <<1, 4>>
    /\ pos_weight = <<3, 1>>

(***************************************************************************)
(* Claims about MLPModule.__init__ (SpecModule)                            *)
(***************************************************************************)
\* C3 as stated: with an empty hidden_sizes the constructor succeeds and the
\* network is exactly one Linear layer from input_size to output_size.
C3_EmptyHiddenSizes ==
    (hidden_sizes = <<>> /\ module_pc \notin {"first", "loop", "output"}) =>
        (module_pc = "done" /\ mlp = <<Linear(input_size, output_size)>>)

(***************************************************************************)
(* Claims about ResultContainer (SpecResult)                               *)
(***************************************************************************)
\* C8: the uncertainty appended by add_results is the entropy of the
\* uncalibrated y_pred whether calibrate is True or False (two calls with the
\* same y_pred store the same uncertainty); calibrate changes the appended
\* prediction only: the raw positive-class column without it, a Platt-scaled
\* column with it.
C8_UncertaintyIgnoresCalibration ==
    /\ \A name \in Methods : \A k \in 1..Len(calls[name]) :
          LET call == calls[name][k]
          IN /\ uncertainties[name][k] = entropy(call.y_pred)
             /\ IF call.calibrate
                THEN predictions[name][k] \in platt_scale(PositiveColumn(call.y_pred))
                ELSE predictions[name][k] = PositiveColumn(call.y_pred)
    /\ \A n1, n2 \in Methods :
         \A k1 \in 1..Len(calls[n1]), k2 \in 1..Len(calls[n2]) :
            calls[n1][k1].y_pred = calls[n2][k2].y_pred
               => uncertainties[n1][k1] = uncertainties[n2][k2]

\* the same y_pred has been added once raw and once calibrated, with
\* different predictions stored
C8_Witness ==
    /\ Len(calls["mlp"]) = 2
    /\ calls["mlp"][1].y_pred = calls["mlp"][2].y_pred
    /\ ~calls["mlp"][1].calibrate
    /\ calls["mlp"][2].calibrate
    /\ predictions["mlp"][1] # predictions["mlp"][2]
    /\ uncertainties["mlp"][1] = uncertainties["mlp"][2]

\* C9: for every method name the prediction list and the uncertainty list
\* are as long as the number of add_results calls that returned for that
\* name; a step appends one entry to each list of at most one name and
\* leaves every earlier entry, and the lists of the other names, as they were.
C9_ListsGrowTogether ==
    [][ /\ \A name \in Methods :
             /\ Len(predictions[name]) = Len(calls[name])
             /\ Len(uncertainties[name]) = Len(calls[name])
             /\ Len(predictions'[name]) = Len(calls'[name])
             /\ Len(uncertainties'[name]) = Len(calls'[name])
             /\ Len(calls'[name]) \in {Len(calls[name]), Len(calls[name]) + 1}
             /\ SubSeq(predictions'[name], 1, Len(predictions[name])) = predictions[name]
             /\ SubSeq(uncertainties'[name], 1, Len(uncertainties[name]))
                   = uncertainties[name]
        /\ Cardinality({name \in Methods : Len(calls'[name]) # Len(calls[name])}) <= 1
      ]_vars

\* both names hold one run, one of them calibrated
C9_Witness ==
    /\ Len(predictions["mlp"]) = 1
    /\ Len(uncertainties["mlp"]) = 1
    /\ Len(predictions["knn"]) = 1
    /\ Len(uncertainties["knn"]) = 1
    /\ calls["mlp"][1].calibrate
    /\ ~calls["knn"][1].calibrate

(***************************************************************************)
(* Claims about get_incremental_loss (SpecIncr, SpecSeeds) and the         *)
(* analyzer (SpecAnalyzer)                                                 *)
(***************************************************************************)
\* q is min_size, min_size + step_size, min_size + 2 * step_size, ...: every
\* such value below N and no other
PositionsBelow(q, N) ==
    /\ \A k \in DOMAIN q : q[k] = min_size + (k - 1) * step_size /\ q[k] < N
    /\ min_size + Len(q) * step_size >= N

\* the metrics whose results the running call has already put in its
\* dictionaries
AggregatedMetrics == {Metrics[m] : m \in 1..(metric_i - 1)}

\* C4: the x-positions get_incremental_loss returns for a metric (in the
\* running call and as stored under a key) are exactly min_size,
\* min_size + step_size, ... restricted to values strictly below the number
\* N of points of a seed, so N itself is never a position; with min_size 2,
\* step_size 1 and one seed of 5 points they are 2, 3, 4 (of 4 points: 2, 3).
C4_XPositions ==
    /\ \A name \in AggregatedMetrics : \A n \in DOMAIN self_y :
          PositionsBelow(xs[name], Len(self_y[n]))
    /\ \A key \in 1..(key_i - 1) : \A name \in MetricNames :
          /\ \A n \in DOMAIN self_y : PositionsBelow(self_xs[key][name], Len(self_y[n]))
          /\ (min_size = 2 /\ step_size = 1 /\ Len(self_y) = 1 /\ Len(self_y[1]) = 5)
                => self_xs[key][name] = <<2, 3, 4>>
          /\ (min_size = 2 /\ step_size = 1 /\ Len(self_y) = 1 /\ Len(self_y[1]) = 4)
                => self_xs[key][name] = <<2, 3>>
    /\ ReturnedSizes(2, 5, 1) = <<2, 3, 4>>

\* C4 witness: the call for one seed of 4 points with min_size 2 and
\* step_size 1 has returned and 2, 3 is stored for both metrics
C4_Witness ==
    /\ key_i = 2
    /\ min_size = 2 /\ step_size = 1
    /\ Len(self_y) = 1 /\ Len(self_y[1]) = 4
    /\ self_xs[1]["n_correct"] = <<2, 3>>
    /\ self_xs[1]["n_positive"] = <<2, 3>>

\* the points of seed n of the current key, each with its own label,
\* prediction and uncertainty
PointsOf(n) ==
    [j \in DOMAIN self_y[n] |->
        [y |-> self_y[n][j],
         y_pred |-> self_y_pred[key_i][n][j],
         uncertainty |-> uncertainty_dict[key_i][n][j]]]

\* the points a frame holds
PointsIn(frame) ==
    [j \in DOMAIN frame |->
        [y |-> frame[j].y, y_pred |-> frame[j].y_pred,
         uncertainty |-> frame[j].uncertainty]]

\* how often the point p is in the sequence q of points
Count(q, p) == Cardinality({j \in DOMAIN q : q[j] = p})

\* every point of `part` is a point of `whole`, as often at most
Within(part, whole) ==
    \A j \in DOMAIN part : Count(part, part[j]) <= Count(whole, part[j])

\* no point of `whole` left out of `part` is more certain than one in it
MostCertain(part, whole) ==
    \A j \in DOMAIN part, e \in DOMAIN whole :
        Count(whole, whole[e]) > Count(part, whole[e])
           => part[j].uncertainty <= whole[e].uncertainty

\* C5: right after a seed's iteration, for every subset size i = temp_xs[k]
\* the metric value temp_score[k] was computed on exactly i points of that
\* seed, each with its own label and prediction, none of them less certain
\* than a point left out, and the subset of a larger size contains the
\* subset of every smaller size.
C5_MostCertainSubsets ==
    (incr_pc = "seeds" /\ seed_n > 1) =>
        LET points == PointsOf(seed_n - 1)
            subset(k) == PointsIn(temp_frames[k])
        IN /\ Len(temp_frames) = Len(temp_xs)
           /\ Len(temp_score) = Len(temp_xs)
           /\ \A k \in DOMAIN temp_xs :
                 /\ Len(subset(k)) = temp_xs[k]
                 /\ Within(subset(k), points)
                 /\ MostCertain(subset(k), points)
                 /\ temp_score[k] = Metric(Metrics[metric_i], temp_frames[k])
                 /\ \A l \in DOMAIN temp_xs :
                       l < k => Within(subset(l), subset(k))

\* C5 witness: a seed whose first point is uncertain and whose second is
\* certain has been evaluated at the sizes 1 and 2; the size-1 subset is the
\* certain point
C5_Witness ==
    /\ incr_pc = "seeds" /\ seed_n = 2
    /\ Len(self_y[1]) >= 3
    /\ uncertainty_dict[1][1][1] = 1
    /\ uncertainty_dict[1][1][2] = 0
    /\ uncertainty_dict[1][1][3] = 1
    /\ Len(temp_xs) >= 2 /\ temp_xs[1] = 1 /\ temp_xs[2] = 2
    /\ temp_frames[1][1].uncertainty = 0
    /\ temp_score[1] = 1

\* the sum of f over the seeds 1..S
RECURSIVE SumOver(_, _)
SumOver(f, S) == IF S = 0 THEN 0 ELSE f[S] + SumOver(f, S - 1)

\* the fraction pair = <<a, b>> is num/den
IsFraction(pair, num, den) == pair[2] > 0 /\ pair[1] * den = pair[2] * num

\* C6: when a metric has been aggregated, its score at every index k is the
\* arithmetic mean over the seeds of the per-seed values at k, and its
\* deviation is the population standard deviation of those values, the
\* square root of sum((v - mean)^2) / S; the values 0.8 and 0.6 (here 8 and 6
\* tenths) give mean 0.7 and deviation 0.1, as do 0.9 and 0.7 with mean 0.8.
C6_MeanAndPopulationStd ==
    /\ (incr_pc = "metrics" /\ metric_i > 1) =>
          LET name == Metrics[metric_i - 1]
              S == Len(list_of_scores)
          IN /\ S = Len(self_y) /\ S >= 1
             /\ Len(score[name]) = Len(list_of_scores[1])
             /\ Len(score_std[name]) = Len(list_of_scores[1])
             /\ \A k \in DOMAIN list_of_scores[1] :
                   LET v == [n \in 1..S |-> list_of_scores[n][k]]
                       T == SumOver(v, S)
                       \* S^2 * sum((v - T/S)^2)
                       D == SumOver([n \in 1..S |-> (S * v[n] - T) * (S * v[n] - T)], S)
                   IN /\ IsFraction(score[name][k], T, S)
                      /\ IsFraction(score_std[name][k].sqrt_of, D, S * S * S)
    /\ Mean(<<8, 6>>) = <<7, 1>> /\ Std(<<8, 6>>) = [sqrt_of |-> <<1, 1>>]
    /\ Mean(<<9, 7>>) = <<8, 1>> /\ Std(<<9, 7>>) = [sqrt_of |-> <<1, 1>>]

\* C6 witness: two seeds with the values 1 and 0 at the first index have
\* been aggregated to the mean 1/2 and the deviation sqrt(1/4) = 1/2
C6_Witness ==
    /\ incr_pc = "metrics" /\ metric_i = 2
    /\ Len(list_of_scores) = 2
    /\ Len(list_of_scores[1]) >= 1
    /\ list_of_scores[1][1] = 1 /\ list_of_scores[2][1] = 0
    /\ score["n_correct"][1] = <<1, 2>>
    /\ score_std["n_correct"][1] = [sqrt_of |-> <<1, 4>>]

\* the seeds all have the same number of points, and there is a seed
SameSizeSeeds ==
    /\ Len(self_y) >= 1
    /\ \A n \in DOMAIN self_y : Len(self_y[n]) = Len(self_y[1])

\* C7: for seeds of one size (at least one seed) the call raises nothing,
\* and for every metric name the three sequences a call has returned or the
\* analyzer has stored under a key have the same length; the k-th mean and
\* deviation come from per-seed values computed on subsets of exactly the
\* k-th returned size.
C7_AlignedSequences ==
    SameSizeSeeds =>
        /\ incr_pc \notin {"TypeError", "ValueError"}
        /\ \A key \in 1..(key_i - 1) : \A name \in MetricNames :
              /\ Len(loss_dict[key][name]) = Len(self_xs[key][name])
              /\ Len(loss_std_dict[key][name]) = Len(self_xs[key][name])
        /\ \A name \in AggregatedMetrics :
              /\ Len(score[name]) = Len(xs[name])
              /\ Len(score_std[name]) = Len(xs[name])
        /\ (incr_pc = "metrics" /\ metric_i > 1) =>
              LET name == Metrics[metric_i - 1]
              IN /\ \A n \in DOMAIN list_of_xs : list_of_xs[n] = xs[name]
                 /\ \A n \in DOMAIN list_of_scores :
                       Len(list_of_scores[n]) = Len(score[name])
                 /\ \A k \in DOMAIN temp_frames : Len(temp_frames[k]) = xs[name][k]

\* C7 witness: both methods are stored for two seeds of two points each,
\* with two positions, two means and two deviations per metric
C7_Witness ==
    /\ key_i = 3
    /\ SameSizeSeeds
    /\ Len(self_y) = 2 /\ Len(self_y[1]) = 2
    /\ min_size = 0 /\ step_size = 1
    /\ \A key \in 1..2 : \A name \in MetricNames :
          /\ self_xs[key][name] = <<0, 1>>
          /\ Len(loss_dict[key][name]) = 2
          /\ Len(loss_std_dict[key][name]) = 2

====
